---- MODULE Spec2Model ----
(***************************************************************************)
(* Selah Rhythm: the daily rollover engine of the App component, with the  *)
(* localStorage it persists to.                                            *)
(*                                                                         *)
(* Time is an integer instant `now`; a calendar day has TicksPerDay        *)
(* instants.  The browser's time zone is tzShift instants ahead of UTC, so *)
(* the local date (getTodayISO) and the UTC date (toISOString) of the same *)
(* instant can differ.  A date string 'YYYY-MM-DD' is modelled by its day  *)
(* number, an ISO timestamp by its instant.                                *)
(***************************************************************************)
EXTENDS Integers, Sequences, FiniteSets, TLC

\* ---------------------------------------------------------------- bounds
MaxNow == 2
TicksPerDay == 2
WeekdayOfDay0 == 6
MaxTasks == 1
MaxEvents == 2
NumHabits == 1
MaxFaults == 2
MaxArchTasks == 2

\* ------------------------------------------------------ program constants
ArchiveCap == 100
HistoryCap == 7
DaysPerWeek == 7
EmptyKey == -1

ListNames == <<"primary", "today", "thisWeek", "later">>
Lists == {"primary", "today", "thisWeek", "later"}
Keys == {"tasks", "habits", "schedEvents", "gratitude", "reflections",
         "lastDailyResetISO", "last_reset_date", "last_habit_reset_week"}
DataKeys == {"tasks", "habits", "schedEvents", "gratitude", "reflections"}

\* ------------------------------------------------------------------ clock
VARIABLES now, tzShift

\* new Date().toISOString().split('T')[0]: the UTC date
UtcDate(t) == t \div TicksPerDay
\* getTodayISO(): the date in the browser's time zone
getTodayISO(t, tz) == (t + tz) \div TicksPerDay
\* getWeekNumber(new Date()): the ISO week (Monday start) of the local date
getWeekNumber(t, tz) == (getTodayISO(t, tz) + WeekdayOfDay0) \div DaysPerWeek

\* -------------------------------------------------------------- storage
VARIABLES store, failKeys, faults

Missing == [kind |-> "missing"]
Garbage == [kind |-> "garbage"]
\* the text JSON.stringify(v) produces
Json(v) == [kind |-> "json", val |-> v]
\* a text written as is
Raw(v) == [kind |-> "raw", val |-> v]

\* load(k, d): the parsed value, or d when the key is missing or its text
\* does not parse as JSON (a raw date string, garbage)
load(st, k, d) == IF st[k].kind = "json" THEN st[k].val ELSE d

\* save(k, v): JSON text under the key; a failing setItem is swallowed
save(st, fk, k, v) == IF k \in fk THEN st ELSE [st EXCEPT ![k] = Json(v)]

\* localStorage.setItem(k, text), when it does not throw
setItem(st, k, v) == [st EXCEPT ![k] = Raw(v)]
\* localStorage.getItem(k) === text
ItemIs(st, k, v) == st[k].kind = "raw" /\ st[k].val = v

\* ------------------------------------------------------------- app state
VARIABLES mounted, habits, schedEvents, tasks, gratitude, reflections

EmptyReflections == [mattered |-> "", released |-> "", wait |-> ""]
EmptyTasks == [primary |-> <<>>, today |-> <<>>, thisWeek |-> <<>>,
               later |-> <<>>, completed |-> <<>>]
DefaultHabits == [i \in 1..NumHabits |-> [id |-> i, done |-> FALSE]]

\* the five persisted pieces of state as one record
Mem == [habits |-> habits, schedEvents |-> schedEvents, tasks |-> tasks,
        gratitude |-> gratitude, reflections |-> reflections]
Unloaded == [habits |-> <<>>, schedEvents |-> <<>>, tasks |-> EmptyTasks,
             gratitude |-> "", reflections |-> EmptyReflections]

\* h.history || []
WithHistory(h) == IF "history" \in DOMAIN h THEN h ELSE h @@ [history |-> <<>>]

\* the useState initialisers
LoadState(st) ==
  [habits |-> LET l == load(st, "habits", DefaultHabits)
              IN [i \in DOMAIN l |-> WithHistory(l[i])],
   schedEvents |-> load(st, "schedEvents", <<>>),
   tasks |-> load(st, "tasks", EmptyTasks),
   gratitude |-> load(st, "gratitude", ""),
   reflections |-> load(st, "reflections", EmptyReflections)]

\* the persist effects: save(k, state[k]) for every state in ks
RECURSIVE Persist(_, _, _, _)
Persist(st, fk, m, ks) ==
  IF ks = {} THEN st
  ELSE LET k == CHOOSE x \in ks : TRUE
       IN Persist(save(st, fk, k, m[k]), fk, m, ks \ {k})

\* ------------------------------------------------------- pure list steps
IsDone(t) == t.done
NotDone(t) == ~t.done
\* e.persistent is truthy (false and absent are not)
IsPersistent(e) == "persistent" \in DOMAIN e /\ e.persistent

\* arr.slice(-n)
SliceLast(s, n) == IF Len(s) <= n THEN s ELSE SubSeq(s, Len(s) - n + 1, Len(s))

\* an uncheck that starts the history over
UncheckAllForgetting(hs) ==
  [i \in DOMAIN hs |-> [done |-> FALSE, history |-> <<>>] @@ hs[i]]
\* prev.map(h => ({...h, done: false}))
UncheckAll(hs) == [i \in DOMAIN hs |-> [hs[i] EXCEPT !.done = FALSE]]
\* prev.map(h => ({...h, done: false, history: h.history || []}))
UncheckAllWeekly(hs) == [i \in DOMAIN hs |-> WithHistory([hs[i] EXCEPT !.done = FALSE])]

\* prev.filter(e => e.persistent)
KeepPersistent(evs) == SelectSeq(evs, IsPersistent)

\* t.completedAt is truthy
HasCompletedAt(t) == "completedAt" \in DOMAIN t /\ t.completedAt # <<>>
\* Stamp as it would be if it set the completion time only
StampCompletedOnly(t, at) ==
  [completedAt |-> IF HasCompletedAt(t) THEN t.completedAt ELSE <<at>>] @@ t

\* {...t, archivedAt: now, completedAt: t.completedAt || now}
Stamp(t, at) ==
  [archivedAt |-> <<at>>,
   completedAt |-> IF HasCompletedAt(t) THEN t.completedAt ELSE <<at>>] @@ t

DoneOfLists(tk) ==
  SelectSeq(tk.primary, IsDone) \o SelectSeq(tk.today, IsDone)
    \o SelectSeq(tk.thisWeek, IsDone) \o SelectSeq(tk.later, IsDone)

\* ArchiveDone as it would be with the working lists kept as they are
ArchiveKeepingWorking(tk, at) ==
  LET d == DoneOfLists(tk)
  IN [tk EXCEPT !.completed =
        SliceLast(@ \o [i \in DOMAIN d |-> Stamp(d[i], at)], ArchiveCap)]

\* the setTasks updater of the day check: done tasks leave the working lists
\* and are appended, stamped, to completed, which keeps its last 100
ArchiveDone(tk, at) ==
  LET d == DoneOfLists(tk)
  IN [primary |-> SelectSeq(tk.primary, NotDone),
      today |-> SelectSeq(tk.today, NotDone),
      thisWeek |-> SelectSeq(tk.thisWeek, NotDone),
      later |-> SelectSeq(tk.later, NotDone),
      completed |-> SliceLast(tk.completed \o [i \in DOMAIN d |-> Stamp(d[i], at)],
                              ArchiveCap)]

\* ------------------------------------------------------ rollover handlers
\* the guard as it would be if an unreadable marker were taken for "no change"
DayChangedSinceKnown(lastReset, todayISO) ==
  lastReset # EmptyKey /\ lastReset # todayISO

\* lastReset !== todayISO
DayChanged(lastReset, todayISO) == lastReset # todayISO

\* performDailyReset of App: the day check under the lastDailyResetISO marker.
\*   m     the state after its updaters have been applied
\*   sync  the store when the callback returns (its own save calls)
\*   st    the store after the render and the persist effects
PerformDailyReset(m, st, fk, t, tz) ==
  LET todayISO == getTodayISO(t, tz)
      fires == DayChanged(load(st, "lastDailyResetISO", EmptyKey), todayISO)
      m1 == [m EXCEPT !.habits = UncheckAll(@),
                      !.schedEvents = KeepPersistent(@),
                      !.gratitude = "",
                      !.reflections = EmptyReflections]
      s1 == save(st, fk, "gratitude", "")
      s2 == save(s1, fk, "reflections", EmptyReflections)
      s3 == save(s2, fk, "lastDailyResetISO", todayISO)
  IN IF fires
     THEN [m |-> m1, sync |-> s3, fired |-> TRUE,
           st |-> Persist(s3, fk, m1, {"habits", "schedEvents", "gratitude", "reflections"})]
     ELSE [m |-> m, sync |-> st, fired |-> FALSE, st |-> st]

\* checkAndResetDaily of App: task archival under the last_reset_date marker
\* and the weekly habit reset.  Its setItem calls are not guarded: a failing
\* one throws and ends the callback there.
CheckAndResetDaily(m, st, fk, t, tz) ==
  LET today == UtcDate(t)
      currentWeek == getWeekNumber(t, tz)
      dayFires == ~ItemIs(st, "last_reset_date", today)
      weekFires == ~ItemIs(st, "last_habit_reset_week", currentWeek)
      dayThrows == dayFires /\ "last_reset_date" \in fk
      m1 == IF dayFires
            THEN [m EXCEPT !.tasks = ArchiveDone(@, t),
                           !.reflections = EmptyReflections,
                           !.gratitude = ""]
            ELSE m
      s1 == IF dayFires /\ ~dayThrows THEN setItem(st, "last_reset_date", today) ELSE st
      weekRuns == weekFires /\ ~dayThrows
      m2 == IF weekRuns THEN [m1 EXCEPT !.habits = UncheckAllWeekly(@)] ELSE m1
      s2 == IF weekRuns /\ "last_habit_reset_week" \notin fk
            THEN setItem(s1, "last_habit_reset_week", currentWeek) ELSE s1
      changed == (IF dayFires THEN {"tasks", "reflections", "gratitude"} ELSE {})
                   \cup (IF weekRuns THEN {"habits"} ELSE {})
  IN [m |-> m2, sync |-> s2, dayFired |-> dayFires, weekFired |-> weekRuns,
      st |-> Persist(s2, fk, m2, changed)]

\* performDailyReset of the useDailyReset hook: the day check with the task
\* archival in it, then the week check.  Every write is a bare setItem: one
\* that fails in the callback ends the callback there, one that fails in an
\* updater throws in the render that runs it.
\*   crashed  an updater threw: the component tree is gone
HookPerformDailyReset(m, st, fk, t, tz) ==
  LET todayISO == getTodayISO(t, tz)
      currentWeek == getWeekNumber(t, tz)
      dayFires == ~ItemIs(st, "lastDailyResetISO", todayISO)
      dayThrows == dayFires /\ fk \cap {"gratitude", "reflections", "lastDailyResetISO"} # {}
      c1 == IF dayFires /\ "gratitude" \notin fk
            THEN [st EXCEPT !["gratitude"] = Json("")] ELSE st
      c2 == IF dayFires /\ fk \cap {"gratitude", "reflections"} = {}
            THEN [c1 EXCEPT !["reflections"] = Json(EmptyReflections)] ELSE c1
      c3 == IF dayFires /\ ~dayThrows THEN setItem(c2, "lastDailyResetISO", todayISO) ELSE c2
      weekFires == ~dayThrows /\ ~ItemIs(st, "last_habit_reset_week", currentWeek)
      c4 == IF weekFires /\ "last_habit_reset_week" \notin fk
            THEN setItem(c3, "last_habit_reset_week", currentWeek) ELSE c3
      m1 == IF dayFires
            THEN [m EXCEPT !.habits = UncheckAll(@),
                           !.schedEvents = KeepPersistent(@),
                           !.tasks = ArchiveDone(@, t),
                           !.gratitude = "",
                           !.reflections = EmptyReflections]
            ELSE m
      m2 == IF weekFires THEN [m1 EXCEPT !.habits = UncheckAllWeekly(@)] ELSE m1
      written == (IF dayFires THEN {"habits", "schedEvents", "tasks"} ELSE {})
                   \cup (IF weekFires THEN {"habits"} ELSE {})
  IN [m |-> m2, sync |-> c4, crashed |-> written \cap fk # {},
      st |-> Persist(c4, fk, m2, written)]

\* handleManualReset, once the user has confirmed
HandleManualReset(m, st, fk, t, tz) ==
  LET todayISO == getTodayISO(t, tz)
      m1 == [m EXCEPT !.habits = UncheckAll(@),
                      !.gratitude = "",
                      !.reflections = EmptyReflections]
      s1 == save(st, fk, "gratitude", "")
      s2 == save(s1, fk, "reflections", EmptyReflections)
      s3 == save(s2, fk, "lastDailyResetISO", todayISO)
  IN [m |-> m1, sync |-> s3,
      st |-> Persist(s3, fk, m1, {"habits", "gratitude", "reflections"})]

\* the first render: state from the store, then the mount effects in their
\* order (performDailyReset, checkAndResetDaily, the persist effects)
MountApp(st, fk, t, tz) ==
  LET m0 == LoadState(st)
      p == PerformDailyReset(m0, st, fk, t, tz)
      c == CheckAndResetDaily(p.m, p.sync, fk, t, tz)
  IN [m |-> c.m, p |-> p, c |-> c, st |-> Persist(c.sync, fk, c.m, DataKeys)]

\* ------------------------------------------------------- user operations
PrimaryCap == 5
Texts == {"x"}
ReflectionKeys == {"gratitude", "mattered"}

TaskIds == 1..MaxTasks
EventIds == 1..MaxEvents
\* genId(): a random 7-character id, taken to differ from the ids in use;
\* which unused id it is makes no difference, so the smallest stands for it
genId(pool, used) == CHOOSE id \in pool \ used : \A o \in pool \ used : id <= o
SeqIds(s) == {s[i].id : i \in DOMAIN s}
WorkingIds(tk) == SeqIds(tk.primary) \cup SeqIds(tk.today)
                    \cup SeqIds(tk.thisWeek) \cup SeqIds(tk.later)

\* addTask(text, list, cat, tm); id is the value genId() returned
addTask(tk, id, list) ==
  LET l == IF list = "primary" /\ Len(tk.primary) >= PrimaryCap THEN "today" ELSE list
  IN [tk EXCEPT ![l] = Append(@, [id |-> id, done |-> FALSE])]

\* delTask(id, list)
delTask(tk, id, list) ==
  LET keep(x) == x.id # id
  IN [tk EXCEPT ![list] = SelectSeq(@, keep)]

\* toggleTask(id, list) at instant `at`, for a task the list holds
toggleTask(tk, id, list, at) ==
  LET t == tk[list][CHOOSE i \in DOMAIN tk[list] : tk[list][i].id = id]
      flip(x) == IF x.id = id
                 THEN [done |-> ~x.done,
                       completedAt |-> IF ~x.done THEN <<at>> ELSE <<>>] @@ x
                 ELSE x
      flipped == [tk EXCEPT ![list] = [i \in DOMAIN @ |-> flip(@[i])]]
      completedTask == [done |-> TRUE, completedAt |-> <<at>>, fromList |-> list] @@ t
      other(ct) == ~(ct.id = id /\ "fromList" \in DOMAIN ct /\ ct.fromList = list)
  IN IF ~t.done
     THEN [flipped EXCEPT !.completed = <<completedTask>> \o @]
     ELSE [flipped EXCEPT !.completed = SelectSeq(@, other)]

\* a toggle that appends today's entry whether or not there is one
togHabitAppending(hs, id, t) ==
  LET tog(x) ==
        LET h == IF "history" \in DOMAIN x THEN x.history ELSE <<>>
        IN [done |-> ~x.done,
            history |-> SliceLast(Append(h, [date |-> UtcDate(t), done |-> ~x.done]),
                                  HistoryCap)] @@ x
  IN [i \in DOMAIN hs |-> IF hs[i].id = id THEN tog(hs[i]) ELSE hs[i]]

\* togHabit(id): today's history entry is overwritten or appended, the
\* history keeps its last 7 entries
togHabit(hs, id, t) ==
  LET today == UtcDate(t)
      tog(x) ==
        LET newDone == ~x.done
            h == IF "history" \in DOMAIN x THEN x.history ELSE <<>>
            has == \E i \in DOMAIN h : h[i].date = today
            todayIndex == CHOOSE i \in DOMAIN h : h[i].date = today
            newHistory == IF has THEN [h EXCEPT ![todayIndex].done = newDone]
                          ELSE Append(h, [date |-> today, done |-> newDone])
        IN [done |-> newDone, history |-> SliceLast(newHistory, HistoryCap)] @@ x
  IN [i \in DOMAIN hs |-> IF hs[i].id = id THEN tog(hs[i]) ELSE hs[i]]

\* handleStepChange(key, value) of the daily reflection card
handleStepChange(m, key, value) ==
  IF key = "gratitude" THEN [m EXCEPT !.gratitude = value]
  ELSE [m EXCEPT !.reflections = [@ EXCEPT ![key] = value]]

\* saveEvent in add mode with a literal title: a plain event at the popover's
\* default time, with the persistent checkbox as given
saveEventAdd(evs, id, persistent) ==
  Append(evs, [id |-> id, title |-> "t", hour |-> 9, minute |-> 0, duration |-> 30,
               type |-> "event", persistent |-> persistent])

\* handleScheduleDrop of a habit at (hour, minute): no persistent field
dropHabit(evs, id, habit, hour, minute) ==
  Append(evs, [id |-> id, title |-> "h", hour |-> hour, minute |-> minute,
               duration |-> 15, type |-> "habit",
               itemRef |-> [type |-> "habit", id |-> habit.id]])

\* ------------------------------------------------- the OrderView component
\* orderView: the useState cells of OrderView; dataTransfer: the drag data
\* store of the browser while a drag is under way.  null is <<>>, a value v
\* that may be null is <<v>>; a typed text that is parsed is the sequence of
\* its characters.
VARIABLES orderView, dataTransfer
\* undoTask: the useState cell of App behind the undo toast, null or the
\* archive entry of the task completed last
VARIABLE undoTask
NoUndo == <<>>
viewVars == <<orderView, dataTransfer, undoTask>>

NoItemRef == [kind |-> "null"]
\* the initial values of the useState cells
OrderViewInit ==
  [startH |-> 9, len |-> 8,
   popover |-> <<>>, popTitle |-> "", popDuration |-> 30, popHour |-> 9,
   popMinute |-> 0, confirmDelete |-> FALSE, customDur |-> <<>>,
   popType |-> "event", popItemRef |-> NoItemRef, popPersistent |-> FALSE,
   dropPreview |-> <<>>, isDraggingBlock |-> <<>>, dragLabel |-> <<>>]
\* no drag under way
NoDrag == <<>>
ViewInit == orderView = OrderViewInit /\ dataTransfer = NoDrag /\ undoTask = NoUndo

\* ------------------------------------------------------------- actions
vars == <<now, tzShift, store, failKeys, faults, mounted, habits, schedEvents,
          tasks, gratitude, reflections, viewVars>>

SetMem(m) ==
  /\ habits' = m.habits
  /\ schedEvents' = m.schedEvents
  /\ tasks' = m.tasks
  /\ gratitude' = m.gratitude
  /\ reflections' = m.reflections

\* a first visit: nothing stored yet
Init ==
  /\ now = 0
  /\ tzShift \in 0..(TicksPerDay - 1)
  /\ store = [k \in Keys |-> Missing]
  /\ failKeys = {}
  /\ faults = 0
  /\ mounted = FALSE
  /\ habits = Unloaded.habits
  /\ schedEvents = Unloaded.schedEvents
  /\ tasks = Unloaded.tasks
  /\ gratitude = Unloaded.gratitude
  /\ reflections = Unloaded.reflections
  /\ ViewInit

\* the page is opened: first render and mount effects
Mount ==
  /\ ~mounted
  /\ LET r == MountApp(store, failKeys, now, tzShift)
     IN SetMem(r.m) /\ store' = r.st
  /\ mounted' = TRUE
  /\ UNCHANGED <<viewVars, now, tzShift, failKeys, faults>>

\* the page is closed with nothing pending
Close ==
  /\ mounted
  /\ mounted' = FALSE
  /\ SetMem(Unloaded)
  /\ orderView' = OrderViewInit
  /\ dataTransfer' = NoDrag
  /\ undoTask' = NoUndo
  /\ UNCHANGED <<now, tzShift, store, failKeys, faults>>

\* the 60-second interval
MinuteTick ==
  /\ mounted
  /\ LET p == PerformDailyReset(Mem, store, failKeys, now, tzShift)
     IN SetMem(p.m) /\ store' = p.st
  /\ UNCHANGED <<viewVars, now, tzShift, failKeys, faults, mounted>>

\* the end of a pull-to-refresh gesture past the threshold: the same call
PullRefresh == MinuteTick

\* the 60-minute interval
HourTick ==
  /\ mounted
  /\ LET c == CheckAndResetDaily(Mem, store, failKeys, now, tzShift)
     IN SetMem(c.m) /\ store' = c.st
  /\ UNCHANGED <<viewVars, now, tzShift, failKeys, faults, mounted>>

\* "reset today" in the settings, confirmed
ManualReset ==
  /\ mounted
  /\ LET r == HandleManualReset(Mem, store, failKeys, now, tzShift)
     IN SetMem(r.m) /\ store' = r.st
  /\ UNCHANGED <<viewVars, now, tzShift, failKeys, faults, mounted>>

UserStep(m, ks) ==
  /\ SetMem(m)
  /\ store' = Persist(store, failKeys, m, ks)
  /\ UNCHANGED <<viewVars, now, tzShift, failKeys, faults, mounted>>

AddTaskFrom(pool) ==
  /\ mounted
  /\ pool \ (WorkingIds(tasks) \cup SeqIds(tasks.completed)) # {}
  /\ \E list \in Lists :
       LET id == genId(pool, WorkingIds(tasks) \cup SeqIds(tasks.completed))
       IN UserStep([Mem EXCEPT !.tasks = addTask(@, id, list)], {"tasks"})

AddTask == AddTaskFrom(TaskIds)

\* a toggle whose undo toast is left out: no action of the specifications
\* that take this step reads undoTask, and the toast is gone after 5 seconds
ToggleTask ==
  /\ mounted
  /\ \E list \in Lists : \E id \in SeqIds(tasks[list]) :
       UserStep([Mem EXCEPT !.tasks = toggleTask(@, id, list, now)], {"tasks"})

DelTask ==
  /\ mounted
  /\ \E list \in Lists : \E id \in SeqIds(tasks[list]) :
       UserStep([Mem EXCEPT !.tasks = delTask(@, id, list)], {"tasks"})

TogHabit ==
  /\ mounted
  /\ \E id \in SeqIds(habits) :
       UserStep([Mem EXCEPT !.habits = togHabit(@, id, now)], {"habits"})

EditReflection ==
  /\ mounted
  /\ \E key \in ReflectionKeys, value \in Texts :
       UserStep(handleStepChange(Mem, key, value),
                IF key = "gratitude" THEN {"gratitude"} ELSE {"reflections"})

SaveEvent ==
  /\ mounted
  /\ EventIds \ SeqIds(schedEvents) # {}
  /\ \E persistent \in BOOLEAN :
       UserStep([Mem EXCEPT !.schedEvents =
                   saveEventAdd(@, genId(EventIds, SeqIds(schedEvents)), persistent)],
                {"schedEvents"})

DropHabit ==
  /\ mounted
  /\ EventIds \ SeqIds(schedEvents) # {}
  /\ \E i \in DOMAIN habits :
       UserStep([Mem EXCEPT !.schedEvents =
                   dropHabit(@, genId(EventIds, SeqIds(schedEvents)), habits[i], 9, 0)],
                {"schedEvents"})

\* ---------------------------------------------------------- environment
AdvanceClock ==
  /\ now < MaxNow
  /\ now' = now + 1
  /\ UNCHANGED <<viewVars, tzShift, store, failKeys, faults, mounted, habits, schedEvents,
                 tasks, gratitude, reflections>>

Next ==
  \/ Mount
  \/ Close
  \/ MinuteTick
  \/ HourTick
  \/ ManualReset
  \/ AddTask
  \/ ToggleTask
  \/ TogHabit
  \/ EditReflection
  \/ SaveEvent
  \/ DropHabit
  \/ AdvanceClock

\* the application in use, with a storage that works
Spec == Init /\ [][Next]_vars

\* ------------------------------------------------- faults of the platform
\* the store a first session at instant 0 leaves behind: a habit checked, a
\* task completed, a persistent and a dropped event, a gratitude text
SessionStore(tz) ==
  LET r == MountApp([k \in Keys |-> Missing], {}, 0, tz)
      m == [r.m EXCEPT
              !.habits = togHabit(@, 1, 0),
              !.tasks = toggleTask(addTask(@, 1, "today"), 1, "today", 0),
              !.schedEvents = dropHabit(saveEventAdd(@, 1, TRUE), 2, r.m.habits[1], 9, 0),
              !.gratitude = "x"]
  IN Persist(r.st, {}, m, DataKeys)

InitFaults ==
  /\ now = 0
  /\ tzShift \in 0..(TicksPerDay - 1)
  /\ store = SessionStore(tzShift)
  /\ failKeys = {}
  /\ faults = 0
  /\ mounted = FALSE
  /\ habits = Unloaded.habits
  /\ schedEvents = Unloaded.schedEvents
  /\ tasks = Unloaded.tasks
  /\ gratitude = Unloaded.gratitude
  /\ reflections = Unloaded.reflections
  /\ ViewInit

\* the page dies after the interval callback returned and before React has
\* rendered: the callback's own writes are in the store, the writes of the
\* updaters and of the persist effects are not (React may have run the first
\* updater, the one of setHabits, inside the callback)
MinuteTickCrash ==
  /\ mounted
  /\ faults < MaxFaults
  /\ LET p == PerformDailyReset(Mem, store, failKeys, now, tzShift)
     IN /\ p.fired
        /\ \E eager \in BOOLEAN :
             store' = IF eager THEN save(p.sync, failKeys, "habits", p.m.habits)
                      ELSE p.sync
  /\ mounted' = FALSE
  /\ SetMem(Unloaded)
  /\ faults' = faults + 1
  /\ UNCHANGED <<viewVars, now, tzShift, failKeys>>

HourTickCrash ==
  /\ mounted
  /\ faults < MaxFaults
  /\ LET c == CheckAndResetDaily(Mem, store, failKeys, now, tzShift)
     IN /\ c.dayFired \/ c.weekFired
        /\ store' = c.sync
  /\ mounted' = FALSE
  /\ SetMem(Unloaded)
  /\ faults' = faults + 1
  /\ UNCHANGED <<viewVars, now, tzShift, failKeys>>

\* the storage starts to refuse the writes of one key (quota exceeded)
WriteFails ==
  /\ faults < MaxFaults
  /\ failKeys = {}
  /\ \E k \in Keys : failKeys' = {k}
  /\ faults' = faults + 1
  /\ UNCHANGED <<viewVars, now, tzShift, store, mounted, habits, schedEvents, tasks,
                 gratitude, reflections>>

WritesRecover ==
  /\ failKeys # {}
  /\ failKeys' = {}
  /\ UNCHANGED <<viewVars, now, tzShift, store, faults, mounted, habits, schedEvents, tasks,
                 gratitude, reflections>>

\* a ledger marker is removed or overwritten with text that does not parse
CorruptLedger ==
  /\ faults < MaxFaults
  /\ \E k \in {"lastDailyResetISO", "last_reset_date"}, c \in {Missing, Garbage} :
       /\ store[k].kind # c.kind
       /\ store' = [store EXCEPT ![k] = c]
  /\ faults' = faults + 1
  /\ UNCHANGED <<viewVars, now, tzShift, failKeys, mounted, habits, schedEvents, tasks,
                 gratitude, reflections>>

NextFaults ==
  \/ Mount
  \/ Close
  \/ MinuteTick
  \/ HourTick
  \/ ManualReset
  \/ EditReflection
  \/ AdvanceClock
  \/ MinuteTickCrash
  \/ HourTickCrash
  \/ WriteFails
  \/ WritesRecover
  \/ CorruptLedger

\* a used installation on a platform that can fail
SpecFaults == InitFaults /\ [][NextFaults]_vars

\* ------------------------------------------------------- a full archive
\* n tasks archived by earlier rollovers, oldest first
Prefill(n) ==
  [i \in 1..n |-> [id |-> ArchiveCap + i, done |-> TRUE,
                   completedAt |-> <<i - n - 1>>, archivedAt |-> <<i - n>>]]

InitArchive ==
  /\ now = 0
  /\ tzShift \in 0..(TicksPerDay - 1)
  /\ \E n \in {0, ArchiveCap} :
       store = [MountApp([k \in Keys |-> Missing], {}, 0, tzShift).st
                  EXCEPT !["tasks"] = Json([EmptyTasks EXCEPT !.completed = Prefill(n)])]
  /\ failKeys = {}
  /\ faults = 0
  /\ mounted = FALSE
  /\ habits = Unloaded.habits
  /\ schedEvents = Unloaded.schedEvents
  /\ tasks = Unloaded.tasks
  /\ gratitude = Unloaded.gratitude
  /\ reflections = Unloaded.reflections
  /\ ViewInit

AddTaskArchive == AddTaskFrom(1..MaxArchTasks)

NextArchive ==
  \/ Mount
  \/ Close
  \/ HourTick
  \/ AddTaskArchive
  \/ ToggleTask
  \/ DelTask
  \/ AdvanceClock

\* the task lists of an installation whose archive is empty or full
SpecArchive == InitArchive /\ [][NextArchive]_vars

\* ================================================================ claims
Instants == 0..MaxNow
AnyDone(hs) == \E i \in DOMAIN hs : hs[i].done
AnyDoneTask(tk) == \E l \in Lists : \E i \in DOMAIN tk[l] : tk[l][i].done

\* the two checks one after the other, as the mount effects run them
BothChecks(m, st, fk, t, tz) ==
  LET p == PerformDailyReset(m, st, fk, t, tz)
  IN CheckAndResetDaily(p.m, p.st, fk, t, tz)

\* C1: running a rollover check twice in a row at the same instant leaves the
\* state and the store as one run leaves them; this for the 60-second check,
\* the 60-minute check, the two together and the check of the useDailyReset
\* hook (where it leaves a component to run it again), at every instant,
\* also while the storage refuses writes.
C1_TickIdempotent ==
  mounted =>
    \A t \in Instants :
      /\ LET a == PerformDailyReset(Mem, store, failKeys, t, tzShift)
             b == PerformDailyReset(a.m, a.st, failKeys, t, tzShift)
         IN b.m = a.m /\ b.st = a.st
      /\ LET a == CheckAndResetDaily(Mem, store, failKeys, t, tzShift)
             b == CheckAndResetDaily(a.m, a.st, failKeys, t, tzShift)
         IN b.m = a.m /\ b.st = a.st
      /\ LET a == BothChecks(Mem, store, failKeys, t, tzShift)
             b == BothChecks(a.m, a.st, failKeys, t, tzShift)
         IN b.m = a.m /\ b.st = a.st
      /\ LET a == HookPerformDailyReset(Mem, store, failKeys, t, tzShift)
             b == HookPerformDailyReset(a.m, a.st, failKeys, t, tzShift)
         IN ~a.crashed => b.m = a.m /\ b.st = a.st

\* a mounted state in which both checks fire and change the state, and a
\* marker write is refused
C1_Witness ==
  /\ mounted
  /\ failKeys = {"last_reset_date"}
  /\ PerformDailyReset(Mem, store, failKeys, now, tzShift).m # Mem
  /\ CheckAndResetDaily(Mem, store, failKeys, now, tzShift).m.tasks # tasks

\* ------------------------------------------------- vocabulary of the claims
\* the state a step starts from: the rendered state, or what a mount loads
Pre == IF mounted THEN Mem ELSE LoadState(store)
\* the calendar day of the user
Today == getTodayISO(now, tzShift)
\* the stored day marker as the application reads it
DayMarker(st) == load(st, "lastDailyResetISO", EmptyKey)
StoredEvents(st) == load(st, "schedEvents", <<>>)
StoredHabits(st) == load(st, "habits", DefaultHabits)
StoredTasks(st) == load(st, "tasks", EmptyTasks)
AllPersistent(evs) == \A i \in DOMAIN evs : IsPersistent(evs[i])
\* the automatic triggers
Tick == Mount \/ MinuteTick \/ HourTick
\* those of them that read the day marker
DayTick == Mount \/ MinuteTick
\* a step that marks today as processed
MarksToday == DayMarker(store) # Today /\ DayMarker(store') = Today
\* every task done in a working list of tk has an entry with a completion
\* time in the archive
DoneAreArchived(tk, archive) ==
  \A l \in Lists : \A i \in DOMAIN tk[l] :
    tk[l][i].done =>
      \E j \in DOMAIN archive :
        archive[j].id = tk[l][i].id /\ HasCompletedAt(archive[j])

\* C2: a tick that reads the stored day marker and finds it one or more days
\* behind today leaves a fully rolled-over state: only persistent events, no habit
\* checked, no done task in a working list and every task that was done in
\* the archive with a completion time, the day marker equal to today.
C2_CatchUpInOneTick ==
  [][(DayTick /\ DayMarker(store) \in 0..(Today - 1)) =>
       /\ AllPersistent(schedEvents')
       /\ ~AnyDone(habits')
       /\ ~AnyDoneTask(tasks')
       /\ DoneAreArchived(Pre.tasks, tasks'.completed)
       /\ DayMarker(store') = Today]_vars

\* C3: a step that marks today as processed keeps every stored persistent
\* event as it is and leaves no stored event whose persistent flag is false
\* or absent.
C3_PersistenceFlagRespected ==
  [][MarksToday =>
       LET before == StoredEvents(store)
           after == StoredEvents(store')
       IN /\ \A i \in DOMAIN before :
               IsPersistent(before[i]) => \E j \in DOMAIN after : after[j] = before[i]
          /\ AllPersistent(after)]_vars

\* C4: when the page dies between a rollover callback and the render that
\* follows it, a store that says the day is processed also holds the rolled
\* over data: no stored habit checked and no stored non-persistent event for
\* the day marker, no stored done task in a working list for the archival
\* marker.
C4_MarkerWrittenLast ==
  [][/\ MinuteTickCrash =>
          (DayMarker(store') = Today =>
             ~AnyDone(StoredHabits(store')) /\ AllPersistent(StoredEvents(store')))
     /\ HourTickCrash =>
          ((~ItemIs(store, "last_reset_date", UtcDate(now))
              /\ ItemIs(store', "last_reset_date", UtcDate(now))) =>
             ~AnyDoneTask(StoredTasks(store')))]_vars

\* C5: once the stored day marker says today is processed, no automatic
\* trigger clears the gratitude and reflection fields again on that day.
C5_OncePerDay ==
  [][(Tick /\ DayMarker(store) = Today) =>
       gratitude' = Pre.gratitude /\ reflections' = Pre.reflections]_vars

\* C6: whatever the trigger, a step that marks today as processed also
\* leaves only persistent events, no habit checked, the reflection fields
\* empty and no done task in a working list.
C6_SameRolloverEveryTrigger ==
  [][MarksToday =>
       /\ AllPersistent(schedEvents')
       /\ ~AnyDone(habits')
       /\ gratitude' = "" /\ reflections' = EmptyReflections
       /\ ~AnyDoneTask(tasks')]_vars

\* ------------------------------------------------------------ the archive
\* a step in which the archival branch of the day check runs
ArchivalRollover ==
  /\ Mount \/ HourTick
  /\ ~ItemIs(store, "last_reset_date", UtcDate(now))
DoneIn(tk) == UNION {{tk[l][i] : i \in {j \in DOMAIN tk[l] : tk[l][j].done}} : l \in Lists}
\* the instant a done task was completed at, `at` when it carries none
CompletedWhen(t, at) == IF HasCompletedAt(t) THEN t.completedAt[1] ELSE at
\* the completions a rollover at `at` has to choose from: (id, instant) of
\* every archive entry and of every done task of the working lists
Completions(tk, at) ==
  {<<tk.completed[i].id, CompletedWhen(tk.completed[i], at)>> : i \in DOMAIN tk.completed}
    \cup {<<t.id, CompletedWhen(t, at)>> : t \in DoneIn(tk)}
\* the latest instant task id was completed at
LastCompleted(cs, id) ==
  CHOOSE w \in {c[2] : c \in {x \in cs : x[1] = id}} :
    \A c \in cs : c[1] = id => c[2] <= w

\* C7: an archival rollover that has more than 100 archive entries and done
\* tasks to keep leaves exactly 100 entries, and no task it drops from the
\* archive was completed later than a task it keeps.
C7_KeepsMostRecent ==
  [][(ArchivalRollover
        /\ Len(Pre.tasks.completed) + Cardinality(DoneIn(Pre.tasks)) > ArchiveCap) =>
       LET cs == Completions(Pre.tasks, now)
           kept == SeqIds(tasks'.completed)
           dropped == {c[1] : c \in cs} \ kept
       IN /\ Len(tasks'.completed) = ArchiveCap
          /\ \A x \in dropped : \A y \in kept :
               LastCompleted(cs, x) <= LastCompleted(cs, y)]_vars

C9_NoAdvanceOnFailedWrite ==
  [][(DayTick /\ failKeys \cap DataKeys # {} /\ MarksToday) =>
       ~AnyDone(StoredHabits(store')) /\ AllPersistent(StoredEvents(store'))]_vars

\* a marker that is missing or does not parse
Unreadable(st, k) == st[k].kind \in {"missing", "garbage"}
\* the state and the store after a step
MemAfter == [habits |-> habits', schedEvents |-> schedEvents', tasks |-> tasks',
             gratitude |-> gratitude', reflections |-> reflections']
\* the day rollover has been applied to the state after a step
RolledAfter ==
  /\ ~AnyDone(habits')
  /\ AllPersistent(schedEvents')
  /\ gratitude' = "" /\ reflections' = EmptyReflections

ThisWeek == getWeekNumber(now, tzShift)
\* the stored week marker names the current week
WeekMarkerIs(st, w) == ItemIs(st, "last_habit_reset_week", w)

\* C11: every automatic trigger settles both ledgers: after it the stored day
\* marker is today and the stored week marker is the current ISO week, and
\* when the stored week differed before it, no habit is left checked.
C11_TickSettlesDayAndWeek ==
  [][Tick =>
       /\ DayMarker(store') = Today
       /\ WeekMarkerIs(store', ThisWeek)
       /\ ~WeekMarkerIs(store, ThisWeek) => ~AnyDone(habits')]_vars

\* ============================================ the schedule grid of OrderView
HOUR_HEIGHT == 64
GRID_TOP_PADDING == 6
MinutesPerHour == 60
SnapMinutes == 5
\* lengths on the grid are counted in sixtieths of a pixel, the unit in which
\* the top of every whole minute is a whole number
Px == MinutesPerHour
HourUnits == HOUR_HEIGHT * Px
\* the start hours and the window lengths the two selects offer
StartHours == {5, 6, 7, 8, 9, 10}
WindowLengths == {4, 6, 8, 9, 10, 12}

Max(a, b) == IF a >= b THEN a ELSE b
Min(a, b) == IF a <= b THEN a ELSE b
\* Math.round(n / d) for n >= 0, d > 0: halves go up
RoundDiv(n, d) == (2 * n + d) \div (2 * d)

\* a conversion that does not take the grid's top padding off
getTimeFromYUnpadded(relY, startH, len) ==
  LET clampedY == Max(0, Min(relY, len * HourUnits - Px))
      snappedMinute == RoundDiv(clampedY % HourUnits, HOUR_HEIGHT * SnapMinutes) * SnapMinutes
      rolls == snappedMinute >= MinutesPerHour
      hour1 == IF rolls THEN Min(startH + clampedY \div HourUnits + 1, startH + len - 1)
               ELSE startH + clampedY \div HourUnits
  IN [hour |-> Max(startH, Min(hour1, startH + len - 1)),
      minute |-> IF rolls THEN 0 ELSE Min(snappedMinute, 55)]

\* getTimeFromY(y, rect) for relY = y - rect.top, in units
getTimeFromY(relY, startH, len) ==
  LET adjustedY == Max(0, relY - GRID_TOP_PADDING * Px)
      usableHeight == len * HourUnits
      clampedY == Max(0, Min(adjustedY, usableHeight - Px))
      \* totalMinutes = clampedY / HOUR_HEIGHT * 60 is clampedY / HOUR_HEIGHT
      \* minutes; rawMinute = totalMinutes % 60 is (clampedY % HourUnits) /
      \* HOUR_HEIGHT
      hourOffset == clampedY \div HourUnits
      snappedMinute == RoundDiv(clampedY % HourUnits, HOUR_HEIGHT * SnapMinutes) * SnapMinutes
      rolls == snappedMinute >= MinutesPerHour
      hour0 == startH + hourOffset
      hour1 == IF rolls THEN Min(hour0 + 1, startH + len - 1) ELSE hour0
      finalMinute == IF rolls THEN 0 ELSE snappedMinute
      finalHour == Max(startH, Min(hour1, startH + len - 1))
  IN [hour |-> finalHour, minute |-> Max(0, Min(finalMinute, 55))]

\* the top of getBlockStyle(event), in units
BlockTop(hour, minute, startH) ==
  ((hour - startH) * MinutesPerHour + minute) * HOUR_HEIGHT + GRID_TOP_PADDING * Px

\* snapToIncrement(minutes) for whole minutes >= 0
snapToIncrement(minutes) ==
  LET snapped == RoundDiv(minutes, SnapMinutes) * SnapMinutes
  IN IF snapped >= MinutesPerHour THEN 55 ELSE snapped

\* ------------------------------------------------------------ parseInt
Digits == <<"0", "1", "2", "3", "4", "5", "6", "7", "8", "9">>
IsDigit(c) == \E i \in DOMAIN Digits : Digits[i] = c
DigitValue(c) == (CHOOSE i \in DOMAIN Digits : Digits[i] = c) - 1
\* the value of the longest prefix of digits of s, with acc read so far
RECURSIVE DigitsValue(_, _)
DigitsValue(s, acc) ==
  IF s = <<>> \/ ~IsDigit(Head(s)) THEN acc
  ELSE DigitsValue(Tail(s), 10 * acc + DigitValue(Head(s)))
\* parseInt(text): <<n>>, or <<>> for NaN.  Leading blanks are skipped, a
\* sign is read, then the digits up to the first other character.
RECURSIVE parseInt(_)
parseInt(s) ==
  IF s = <<>> THEN <<>>
  ELSE IF Head(s) = " " THEN parseInt(Tail(s))
  ELSE IF Head(s) \in {"-", "+"}
       THEN IF Tail(s) # <<>> /\ IsDigit(Head(Tail(s)))
            THEN <<(IF Head(s) = "-" THEN -1 ELSE 1) * DigitsValue(Tail(s), 0)>>
            ELSE <<>>
  ELSE IF IsDigit(Head(s)) THEN <<DigitsValue(s, 0)>>
  ELSE <<>>
\* parseInt(text) || d
parseIntOr(s, d) ==
  LET n == parseInt(s) IN IF n = <<>> \/ n[1] = 0 THEN d ELSE n[1]

\* TIMES, the time estimates a task can carry
TIMES == << <<>>, <<"5", "m">>, <<"1", "5", "m">>, <<"3", "0", "m">>,
            <<"1", "h">>, <<"2", "h">>, <<"3", "h", "+">> >>

\* ==================================================== the event editor
\* the model's tasks and habits may carry no text and no name: "x" and "h"
\* stand for them, as in dropHabit
TaskText(t) == IF "text" \in DOMAIN t THEN t.text ELSE "x"
HabitName(h) == IF "name" \in DOMAIN h THEN h.name ELSE "h"
\* title.trim() on the titles that are typed here
Trim(text) ==
  CASE text = " " -> ""
    [] text = " t " -> "t"
    [] OTHER -> text

\* allTasks: the tasks of the working lists that are not done, each with the
\* name of its list
WithList(ts, l) == [i \in DOMAIN ts |-> [list |-> l] @@ ts[i]]
allTasks(tk) ==
  SelectSeq(WithList(tk.primary, "primary") \o WithList(tk.today, "today")
              \o WithList(tk.thisWeek, "thisWeek") \o WithList(tk.later, "later"),
            NotDone)

\* the value of an option of a picker: the text `${list}:${id}` of a task,
\* the id of a habit
TaskOption(t) == [text |-> <<t.list, t.id>>]
HabitOption(h) == [text |-> <<h.id>>]
\* event.itemRef || null, event.persistent || false, event.type || 'event'
ItemRefOf(e) == IF "itemRef" \in DOMAIN e THEN e.itemRef ELSE NoItemRef
TypeOf(e) == IF "type" \in DOMAIN e THEN e.type ELSE "event"

\* openPopover(mode, hour, minute, event, x, y); y is kept, x is not
openPopoverAdd(ov, hour, minute, y) ==
  [ov EXCEPT !.popTitle = "", !.popDuration = 30, !.popHour = hour,
             !.popMinute = minute, !.popType = "event", !.popItemRef = NoItemRef,
             !.popPersistent = FALSE, !.customDur = <<>>,
             !.popover = <<[mode |-> "add", y |-> y]>>]
openPopoverEdit(ov, event, y) ==
  [ov EXCEPT !.popTitle = event.title, !.popDuration = event.duration,
             !.popHour = event.hour, !.popMinute = event.minute,
             !.popType = TypeOf(event), !.popItemRef = ItemRefOf(event),
             !.popPersistent = IsPersistent(event), !.customDur = <<>>,
             !.popover = <<[mode |-> "edit", event |-> event, y |-> y]>>]

\* handleGridClick(e) with the pointer at relY
handleGridClick(ov, relY) ==
  LET t == getTimeFromY(relY, ov.startH, ov.len)
  IN IF ov.popover # <<>> THEN ov ELSE openPopoverAdd(ov, t.hour, t.minute, relY)
\* handleBlockClick(e, event) with the pointer at relY
handleBlockClick(ov, event, relY) == openPopoverEdit(ov, event, relY)

\* handleTypeChange(newType)
handleTypeChange(ov, newType) ==
  [ov EXCEPT !.popType = newType, !.popItemRef = NoItemRef,
             !.popTitle = IF newType = "event" THEN "" ELSE @]

\* the title and the link saveEvent resolves from the editor's fields
ResolveTitle(ov, tk, hs) ==
  LET typed == [title |-> Trim(ov.popTitle), itemRef |-> NoItemRef]
      ts == allTasks(tk)
      isOption == "text" \in DOMAIN ov.popItemRef
  IN IF ov.popType = "task" /\ ov.popItemRef # NoItemRef
     THEN IF isOption /\ \E i \in DOMAIN ts : TaskOption(ts[i]) = ov.popItemRef
          THEN LET task == ts[CHOOSE i \in DOMAIN ts : TaskOption(ts[i]) = ov.popItemRef]
               IN [title |-> TaskText(task),
                   itemRef |-> [type |-> "task", id |-> task.id, list |-> task.list]]
          ELSE typed
     ELSE IF ov.popType = "habit" /\ ov.popItemRef # NoItemRef
     THEN IF isOption /\ \E i \in DOMAIN hs : HabitOption(hs[i]) = ov.popItemRef
          THEN LET habit == hs[CHOOSE i \in DOMAIN hs : HabitOption(hs[i]) = ov.popItemRef]
               IN [title |-> HabitName(habit),
                   itemRef |-> [type |-> "habit", id |-> habit.id]]
          ELSE typed
     ELSE typed

\* customDur ? Math.min(600, Math.max(1, parseInt(customDur) || 30)) : popDuration
\* a custom duration stored as it parses
finalDurationAsTyped(ov) ==
  IF ov.customDur # <<>> THEN parseIntOr(ov.customDur, 30) ELSE ov.popDuration
finalDuration(ov) ==
  IF ov.customDur # <<>> THEN Min(600, Max(1, parseIntOr(ov.customDur, 30)))
  ELSE ov.popDuration

\* saveEvent(), with the editor open; id is the value genId() returns
saveEvent(ov, evs, tk, hs, id) ==
  LET r == ResolveTitle(ov, tk, hs)
      fields == [title |-> r.title, hour |-> ov.popHour, minute |-> ov.popMinute,
                 duration |-> finalDuration(ov), type |-> ov.popType,
                 itemRef |-> r.itemRef, persistent |-> ov.popPersistent]
      pop == ov.popover[1]
  IN IF r.title = "" THEN [ov |-> ov, evs |-> evs]
     ELSE [ov |-> [ov EXCEPT !.popover = <<>>],
           evs |-> IF pop.mode = "add"
                   THEN Append(evs, [id |-> id] @@ fields)
                   ELSE [i \in DOMAIN evs |->
                           IF evs[i].id = pop.event.id THEN fields @@ evs[i]
                           ELSE evs[i]]]

\* deleteEvent(), with the editor open
deleteEvent(ov, evs) ==
  LET pop == ov.popover[1]
      other(e) == e.id # pop.event.id
  IN IF ~ov.confirmDelete THEN [ov |-> [ov EXCEPT !.confirmDelete = TRUE], evs |-> evs]
     ELSE [ov |-> [ov EXCEPT !.popover = <<>>, !.confirmDelete = FALSE],
           evs |-> IF "event" \in DOMAIN pop THEN SelectSeq(evs, other) ELSE evs]

\* closeModal(), once its 180 ms timer has fired
closeModal(ov) == [ov EXCEPT !.popover = <<>>, !.confirmDelete = FALSE]

\* -------------------------------------------------------- drag and drop
TaskTime(t) == IF "time" \in DOMAIN t THEN t.time ELSE <<>>
\* updTime(id, list, tm)
updTime(tk, id, list, tm) ==
  [tk EXCEPT ![list] = [i \in DOMAIN @ |-> IF @[i].id = id THEN [time |-> tm] @@ @[i]
                                           ELSE @[i]]]

\* what the three drag sources put in the drag data store
TaskPayload(t) ==
  [type |-> "task", taskId |-> t.id, title |-> TaskText(t), sourceList |-> t.list,
   duration |-> parseIntOr(TaskTime(t), 30)]
HabitPayload(h) ==
  [type |-> "habit", habitId |-> h.id, title |-> HabitName(h), duration |-> 15]
\* handleBlockDragStart(e, event)
BlockPayload(event) ==
  [type |-> "scheduleBlock", blockId |-> event.id, title |-> event.title,
   duration |-> event.duration]
handleBlockDragStart(ov, event) == [ov EXCEPT !.isDraggingBlock = <<event.id>>]

\* handleScheduleDragOver(e) with the pointer at relY; readable: the browser
\* lets the handler read the data during the drag
handleScheduleDragOver(ov, data, relY, readable) ==
  LET t == getTimeFromY(relY, ov.startH, ov.len)
      duration == IF ~readable THEN 60
                  ELSE IF data.type = "habit" THEN 15
                  ELSE IF data.duration # 0 THEN data.duration
                  ELSE 60
      top == BlockTop(t.hour, t.minute, ov.startH)
      height == Max(duration * HOUR_HEIGHT, 24 * Px)
      maxTop == ov.len * HourUnits - height
  IN [ov EXCEPT !.dropPreview = <<[top |-> Max(0, Min(top, maxTop)),
                                   height |-> height, time |-> t]>>,
                !.dragLabel = <<[y |-> relY, time |-> t]>>]

\* handleScheduleDragLeave(e); inside: e.relatedTarget is inside the grid
handleScheduleDragLeave(ov, inside) ==
  IF inside THEN ov ELSE [ov EXCEPT !.dropPreview = <<>>, !.dragLabel = <<>>]

\* a reposition to the hour under the pointer
RepositionedOnTheHour(t, duration0, startH, len) ==
  [hour |-> Max(startH, Min(t.hour, startH + len - 1)), minute |-> 0]

\* the scheduleBlock branch of handleScheduleDrop: the start a block gets
RepositionedStart(t, duration0, startH, len) ==
  LET workdayMinutes == len * MinutesPerHour
      newTotalMinutes == (t.hour - startH) * MinutesPerHour + t.minute
      duration == IF duration0 = 0 THEN 30 ELSE duration0
      clampedMinutes == Max(0, Min(newTotalMinutes, workdayMinutes - duration))
  IN [hour |-> startH + clampedMinutes \div MinutesPerHour,
      minute |-> snapToIncrement(clampedMinutes % MinutesPerHour)]

\* handleScheduleDrop(e) with the pointer at relY; id is the value genId()
\* returns
handleScheduleDrop(ov, evs, tk, hs, data, relY, id) ==
  LET t == getTimeFromY(relY, ov.startH, ov.len)
      ts == allTasks(tk)
      cleared == [ov EXCEPT !.dropPreview = <<>>, !.dragLabel = <<>>]
      dropped ==
        IF data.type = "task"
        THEN IF \E i \in DOMAIN ts : ts[i].id = data.taskId
             THEN LET task == ts[CHOOSE i \in DOMAIN ts : ts[i].id = data.taskId]
                  IN Append(evs, [id |-> id, title |-> TaskText(task), hour |-> t.hour,
                                  minute |-> t.minute,
                                  duration |-> parseIntOr(TaskTime(task), 30),
                                  type |-> "task",
                                  itemRef |-> [type |-> "task", id |-> task.id,
                                               list |-> task.list]])
             ELSE evs
        ELSE IF data.type = "habit"
        THEN IF \E i \in DOMAIN hs : hs[i].id = data.habitId
             THEN dropHabit(evs, id, hs[CHOOSE i \in DOMAIN hs : hs[i].id = data.habitId],
                            t.hour, t.minute)
             ELSE evs
        ELSE LET new == RepositionedStart(t, data.duration, ov.startH, ov.len)
             IN [i \in DOMAIN evs |->
                   IF evs[i].id = data.blockId
                   THEN [hour |-> new.hour, minute |-> new.minute] @@ evs[i]
                   ELSE evs[i]]
  IN [ov |-> cleared, evs |-> dropped]

\* handleBlockDragEnd()
handleBlockDragEnd(ov) ==
  [ov EXCEPT !.isDraggingBlock = <<>>, !.dropPreview = <<>>, !.dragLabel = <<>>]
\* the dragend handler of the source of the drag
SourceDragEnd(ov, data) ==
  IF data.type = "scheduleBlock" THEN handleBlockDragEnd(ov) ELSE ov

\* ------------------------------------------- the schedule grid in use
\* the windows the model sets, the pointer rows of the grid it visits (in
\* pixels from the top of the grid) and the custom durations of the events
\* the schedule starts with
ChosenStartHours == {5, 9}
ChosenLengths == {4, 8}
GridBottom(len) == len * HOUR_HEIGHT + GRID_TOP_PADDING - 1
\* the first line of the grid, 5 h 15 min under it, and a row of the last
\* 5-minute slot
LastSlotRow(len) == GridBottom(len) - 4
PointerYs(len) == {y \in {GRID_TOP_PADDING, 342, LastSlotRow(len)} : y <= GridBottom(len)}
FirstDurations == {<<>>, <<"7">>}
\* the estimates a task is given: none, "30m" and "1h"
ChosenTimes == {TIMES[1], TIMES[4], TIMES[5]}

\* a step of the view: the cells of OrderView, the drag data store, the
\* state of App and the keys its persist effects write
ViewStep(ov, dt, m, ks) ==
  /\ orderView' = ov
  /\ dataTransfer' = dt
  /\ SetMem(m)
  /\ store' = Persist(store, failKeys, m, ks)
  /\ UNCHANGED <<undoTask, now, tzShift, failKeys, faults, mounted>>

Dragging == mounted /\ dataTransfer # NoDrag
Idle == mounted /\ dataTransfer = NoDrag /\ orderView.popover = <<>>
FreeEventIds == EventIds \ SeqIds(schedEvents)
NextEventId == IF FreeEventIds = {} THEN 0 ELSE genId(EventIds, SeqIds(schedEvents))

\* the application open on a schedule of one event, saved from the editor
\* with the default or a custom duration, and one task
InitGrid ==
  /\ now = 0
  /\ tzShift = 0
  /\ failKeys = {}
  /\ faults = 0
  /\ mounted = TRUE
  /\ ViewInit
  /\ \E cd \in FirstDurations :
       LET m0 == MountApp([k \in Keys |-> Missing], {}, 0, 0)
           tk == addTask(m0.m.tasks, 1, "today")
           ed == [handleGridClick(OrderViewInit, BlockTop(9, 0, 9)) EXCEPT !.popTitle = "t", !.customDur = cd]
           m == [m0.m EXCEPT !.tasks = tk,
                             !.schedEvents = saveEvent(ed, <<>>, tk, m0.m.habits, 1).evs]
       IN /\ habits = m.habits
          /\ schedEvents = m.schedEvents
          /\ tasks = m.tasks
          /\ gratitude = m.gratitude
          /\ reflections = m.reflections
          /\ store = Persist(m0.st, {}, m, {"tasks", "schedEvents"})

\* the two selects over the grid
SetStartHFrom(hs) ==
  /\ Idle
  /\ \E h \in hs : ViewStep([orderView EXCEPT !.startH = h], NoDrag, Mem, {})
SetLenFrom(ls) ==
  /\ Idle
  /\ \E l \in ls : ViewStep([orderView EXCEPT !.len = l], NoDrag, Mem, {})
SetStartH == SetStartHFrom(ChosenStartHours)
SetLen == SetLenFrom(ChosenLengths)

\* the time estimate of a task is picked
UpdTime ==
  /\ Idle
  /\ \E list \in Lists : \E id \in SeqIds(tasks[list]) : \E tm \in ChosenTimes :
       ViewStep(orderView, NoDrag, [Mem EXCEPT !.tasks = updTime(@, id, list, tm)],
                {"tasks"})

\* a drag starts on a task row, on a habit, on a block of the grid
TaskDragStart ==
  /\ Idle
  /\ \E i \in DOMAIN allTasks(tasks) :
       ViewStep(orderView, <<TaskPayload(allTasks(tasks)[i])>>, Mem, {})
HabitDragStart ==
  /\ Idle
  /\ \E i \in DOMAIN habits : ViewStep(orderView, <<HabitPayload(habits[i])>>, Mem, {})
BlockDragStart ==
  /\ Idle
  /\ \E i \in DOMAIN schedEvents :
       ViewStep(handleBlockDragStart(orderView, schedEvents[i]),
                <<BlockPayload(schedEvents[i])>>, Mem, {})

\* a pointer move over the grid that would also move the dragged block
DragOverCommitting ==
  /\ Dragging
  /\ \E y \in PointerYs(orderView.len) :
       LET r == handleScheduleDrop(orderView, schedEvents, tasks, habits,
                                   dataTransfer[1], y * Px, NextEventId)
       IN ViewStep(handleScheduleDragOver(orderView, dataTransfer[1], y * Px, TRUE),
                   dataTransfer, [Mem EXCEPT !.schedEvents = r.evs], {"schedEvents"})

\* the pointer moves over the grid
DragOver ==
  /\ Dragging
  /\ \E y \in PointerYs(orderView.len), readable \in BOOLEAN :
       ViewStep(handleScheduleDragOver(orderView, dataTransfer[1], y * Px, readable),
                dataTransfer, Mem, {})

\* the pointer leaves an element of the grid, for another one of the grid or
\* for the outside
DragLeave ==
  /\ Dragging
  /\ \E inside \in BOOLEAN :
       ViewStep(handleScheduleDragLeave(orderView, inside), dataTransfer, Mem, {})

\* the drag is released over the grid, where the last dragover found the
\* pointer: drop at the grid, then dragend at the source
Drop ==
  /\ Dragging
  /\ orderView.dragLabel # <<>>
  /\ dataTransfer[1].type # "scheduleBlock" => FreeEventIds # {}
  /\ LET r == handleScheduleDrop(orderView, schedEvents, tasks, habits,
                                 dataTransfer[1], orderView.dragLabel[1].y, NextEventId)
     IN ViewStep(SourceDragEnd(r.ov, dataTransfer[1]), NoDrag,
                 [Mem EXCEPT !.schedEvents = r.evs], {"schedEvents"})

\* the drag is cancelled: dragleave with no related target at the element
\* under the pointer, then dragend at the source
DragCancel ==
  /\ Dragging
  /\ ViewStep(SourceDragEnd(handleScheduleDragLeave(orderView, FALSE), dataTransfer[1]),
              NoDrag, Mem, {})

NextGrid ==
  \/ SetStartH
  \/ SetLen
  \/ UpdTime
  \/ TaskDragStart
  \/ HabitDragStart
  \/ BlockDragStart
  \/ DragOver
  \/ DragLeave
  \/ Drop
  \/ DragCancel

\* the schedule grid with drags of tasks, habits and blocks
SpecGrid == InitGrid /\ [][NextGrid]_vars

\* ------------------------------------------------ claims about the grid
\* the cells of OrderView a drag may touch before the drop: the preview, the
\* floating label and the mark of the block being dragged
DragCells == {"dropPreview", "dragLabel", "isDraggingBlock"}
SameBut(ov1, ov2, cells) == \A f \in DOMAIN ov1 \ cells : ov1[f] = ov2[f]
BeforeDrop ==
  TaskDragStart \/ HabitDragStart \/ BlockDragStart \/ DragOver \/ DragLeave \/ DragCancel
PreviewCleared(ov) == ov.dropPreview = <<>> /\ ov.dragLabel = <<>>

BlockDrop == Drop /\ dataTransfer[1].type = "scheduleBlock"
PointerTime == getTimeFromY(orderView.dragLabel[1].y, orderView.startH, orderView.len)
MinutesIn(e, startH) == (e.hour - startH) * MinutesPerHour + e.minute
Fits(t, duration, startH, len) == MinutesIn(t, startH) + duration <= len * MinutesPerHour

\* C13: the drop of a block at a pointer position that resolves to (hour,
\* minute) leaves the number and the order of the events, every other event
\* and every field of the dropped event but hour and minute as they were,
\* and sets hour and minute to the resolved time when the event started
\* there ends inside the window.
C13_RepositionChangesOnlyStart ==
  [][BlockDrop =>
       /\ Len(schedEvents') = Len(schedEvents)
       /\ \A i \in DOMAIN schedEvents :
            IF schedEvents[i].id = dataTransfer[1].blockId
            THEN /\ DOMAIN schedEvents'[i] = DOMAIN schedEvents[i]
                 /\ SameBut(schedEvents[i], schedEvents'[i], {"hour", "minute"})
                 /\ Fits(PointerTime, schedEvents[i].duration, orderView.startH, orderView.len)
                      => /\ schedEvents'[i].hour = PointerTime.hour
                         /\ schedEvents'[i].minute = PointerTime.minute
            ELSE schedEvents'[i] = schedEvents[i]
       /\ StoredEvents(store') = schedEvents']_vars
\* the 30-minute event saved at 9:00 stands at 14:15 next to another event
C13_Witness ==
  /\ dataTransfer = NoDrag
  /\ Len(schedEvents) = 2
  /\ \E i \in DOMAIN schedEvents :
       /\ schedEvents[i].id = 1
       /\ schedEvents[i].duration = 30
       /\ schedEvents[i].hour = 14
       /\ schedEvents[i].minute = 15

\* C14: after the drop of a block whose duration is in 1..600 and no longer
\* than the window, the event starts at or after the first visible hour and
\* ends at or before the end of the window.
C14_RepositionStaysInWindow ==
  [][BlockDrop =>
       \A i \in DOMAIN schedEvents' :
         (/\ schedEvents'[i].id = dataTransfer[1].blockId
          /\ schedEvents'[i].duration \in 1..600
          /\ schedEvents'[i].duration <= orderView.len * MinutesPerHour)
         => /\ MinutesIn(schedEvents'[i], orderView.startH) >= 0
            /\ Fits(schedEvents'[i], schedEvents'[i].duration, orderView.startH,
                    orderView.len)]_vars

\* a task or a habit is dropped
ExternalDrop == Drop /\ dataTransfer[1].type \in {"task", "habit"}
\* the minutes an estimate of TIMES stands for; none stands for 30
StatedMinutes(tm) ==
  CASE tm = TIMES[1] -> 30
    [] tm = TIMES[2] -> 5
    [] tm = TIMES[3] -> 15
    [] tm = TIMES[4] -> 30
    [] tm = TIMES[5] -> 60
    [] tm = TIMES[6] -> 120
\* the task of the working lists with this id
TaskOfId(tk, id) ==
  LET ts == allTasks(tk) IN ts[CHOOSE i \in DOMAIN ts : ts[i].id = id]

RowMargin == 3
FiveMinuteMarks == {SnapMinutes * k : k \in 0..11}
VisibleHours(startH, len) == startH..(startH + len - 1)
\* where a click can fall: every pixel row of the grid and the top of every
\* 5-minute time of the window
ClickRows(startH, len) ==
  {y * Px : y \in 0..(GridBottom(len) + RowMargin)}
    \cup {BlockTop(h, m, startH) : h \in VisibleHours(startH, len), m \in FiveMinuteMarks}

SetStartHAny == SetStartHFrom(StartHours)
SetLenAny == SetLenFrom(WindowLengths)
\* a click on the grid beside the quarter slots
GridClick ==
  /\ Idle
  /\ \E relY \in ClickRows(orderView.startH, orderView.len) :
       ViewStep(handleGridClick(orderView, relY), NoDrag, Mem, {})
\* Cancel, the close button, the overlay, Escape
CloseModal ==
  /\ mounted
  /\ orderView.popover # <<>>
  /\ ViewStep(closeModal(orderView), dataTransfer, Mem, {})

NextGeometry ==
  \/ SetStartHAny
  \/ SetLenAny
  \/ GridClick
  \/ CloseModal

\* the grid under every window the selects offer, clicked anywhere
InitGeometry == InitGrid /\ schedEvents[1].duration = 30
SpecGeometry == InitGeometry /\ [][NextGeometry]_vars

\* the editor stands open for a new event after a click at relY
ClickedAt(relY) ==
  /\ orderView.popover # <<>>
  /\ orderView.popover[1].mode = "add"
  /\ orderView.popover[1].y = relY
Resolved == [hour |-> orderView.popHour, minute |-> orderView.popMinute]

\* C16: under every window, a click on the top of the block of a time (hour,
\* minute) of the window, minute a multiple of 5, resolves to (hour, minute).
C16_GeometryRoundTrip ==
  \A h \in VisibleHours(orderView.startH, orderView.len), m \in FiveMinuteMarks :
    ClickedAt(BlockTop(h, m, orderView.startH)) => Resolved = [hour |-> h, minute |-> m]
\* the top of 16:55 clicked under the window of 12 hours from 5
C16_Witness ==
  /\ orderView.startH = 5
  /\ orderView.len = 12
  /\ ClickedAt(BlockTop(16, 55, 5))
  /\ Resolved = [hour |-> 16, minute |-> 55]

\* C17: every pointer row resolves to an hour of the window and a minute of
\* {0, 5, ..., 55}; a row at or above the first line resolves to the first
\* time of the window, a row at or below the bottom edge of the last hour to
\* the last one, (last hour, 55).
C17_GeometryClamp ==
  LET startH == orderView.startH
      len == orderView.len
      first == [hour |-> startH, minute |-> 0]
      last == [hour |-> startH + len - 1, minute |-> 55]
      inWindow(t) == t.hour \in VisibleHours(startH, len) /\ t.minute \in FiveMinuteMarks
  IN /\ orderView.popover # <<>> /\ orderView.popover[1].mode = "add" =>
          /\ inWindow(Resolved)
          /\ orderView.popover[1].y <= GRID_TOP_PADDING * Px => Resolved = first
          /\ orderView.popover[1].y >= (GridBottom(len) + 1) * Px => Resolved = last
     /\ \A d \in 1..RowMargin :
          /\ getTimeFromY(-d * Px, startH, len) = first
          /\ inWindow(getTimeFromY((GridBottom(len) + RowMargin + d) * Px, startH, len))

\* ---------------------------------------------------- the editor in use
\* the events the schedule holds at most while the editor is explored, the
\* quarter slots clicked, the titles typed, the chips pressed and the
\* custom durations typed
MaxEditorEvents == 1
SlotChoices == {<<10, 30>>}
Titles == {"", " ", "u"}
PresetChoices == {15}
CustomEntries == {<<>>, <<"7">>, <<"0">>, <<"7", "0", "0">>, <<"a">>}
Types == {"event", "task", "habit"}

EditorOpen == mounted /\ orderView.popover # <<>>
EditorStep(ov) == ViewStep(ov, dataTransfer, Mem, {})

\* a click on a quarter slot of the grid
SlotClick ==
  /\ Idle
  /\ Len(schedEvents) < MaxEditorEvents
  /\ \E slot \in SlotChoices :
       EditorStep(openPopoverAdd(orderView, slot[1], slot[2],
                                 BlockTop(slot[1], slot[2], orderView.startH) + 8 * Px))
\* a click on a block of the grid
BlockClick ==
  /\ Idle
  /\ \E i \in DOMAIN schedEvents :
       EditorStep(handleBlockClick(orderView, schedEvents[i],
                                   BlockTop(schedEvents[i].hour, schedEvents[i].minute,
                                            orderView.startH)))
\* the title input, shown for a plain event
TypeTitle ==
  /\ EditorOpen
  /\ orderView.popType = "event"
  /\ \E text \in Titles : EditorStep([orderView EXCEPT !.popTitle = text])
\* the three type buttons
TypeChange ==
  /\ EditorOpen
  /\ \E newType \in Types : EditorStep(handleTypeChange(orderView, newType))
\* the task picker and the habit picker: an option, or the empty one
PickItem ==
  /\ EditorOpen
  /\ \/ /\ orderView.popType = "task"
        /\ \E v \in {NoItemRef} \cup {TaskOption(allTasks(tasks)[i]) : i \in DOMAIN allTasks(tasks)} :
             EditorStep([orderView EXCEPT !.popItemRef = v])
     \/ /\ orderView.popType = "habit"
        /\ \E v \in {NoItemRef} \cup {HabitOption(habits[i]) : i \in DOMAIN habits} :
             EditorStep([orderView EXCEPT !.popItemRef = v])
\* a duration chip
PickPreset ==
  /\ EditorOpen
  /\ \E d \in PresetChoices :
       EditorStep([orderView EXCEPT !.popDuration = d, !.customDur = <<>>])
\* the custom duration input
TypeCustomDur ==
  /\ EditorOpen
  /\ \E text \in CustomEntries : EditorStep([orderView EXCEPT !.customDur = text])
\* Save, or Enter in the title input
PressSave ==
  /\ EditorOpen
  /\ LET r == saveEvent(orderView, schedEvents, tasks, habits, NextEventId)
     IN ViewStep(r.ov, dataTransfer, [Mem EXCEPT !.schedEvents = r.evs],
                 IF r.evs = schedEvents /\ r.ov = orderView THEN {} ELSE {"schedEvents"})
\* Delete, shown when an event is edited
PressDelete ==
  /\ EditorOpen
  /\ orderView.popover[1].mode = "edit"
  /\ LET r == deleteEvent(orderView, schedEvents)
     IN ViewStep(r.ov, dataTransfer, [Mem EXCEPT !.schedEvents = r.evs],
                 IF r.ov.popover = <<>> THEN {"schedEvents"} ELSE {})

NextEditor ==
  \/ SlotClick
  \/ BlockClick
  \/ TypeTitle
  \/ TypeChange
  \/ PickItem
  \/ PickPreset
  \/ TypeCustomDur
  \/ PressSave
  \/ PressDelete
  \/ CloseModal

\* the editor of the schedule, opened on new and on stored events
SpecEditor == InitGeometry /\ [][NextEditor]_vars

\* ---------------------------------------------- claims about the editor
\* the editor holds a usable title: text for a plain event, a picked task or
\* habit that exists for the two other types
UsableTitle ==
  \/ orderView.popType = "event" /\ Trim(orderView.popTitle) # ""
  \/ /\ orderView.popType = "task"
     /\ \E i \in DOMAIN allTasks(tasks) : orderView.popItemRef = TaskOption(allTasks(tasks)[i])
  \/ /\ orderView.popType = "habit"
     /\ \E i \in DOMAIN habits : orderView.popItemRef = HabitOption(habits[i])

\* C18: a press on Save with no usable title in the editor (no text for a
\* plain event, no picked and resolved task or habit for the other types)
\* leaves the events, the store and the editor as they were, the editor open.
C18_SaveNeedsUsableTitle ==
  [][PressSave /\ ~UsableTitle =>
       /\ schedEvents' = schedEvents
       /\ store' = store
       /\ orderView' = orderView]_vars

Opening == SlotClick \/ BlockClick

\* C19: the editor opens with Delete unarmed, and a press on Delete that
\* finds it unarmed removes nothing: no event leaves the schedule before
\* the second press of the same opening of the editor.
C19_TwoStepDelete ==
  [][/\ Opening => ~orderView'.confirmDelete
     /\ PressDelete /\ ~orderView.confirmDelete => schedEvents' = schedEvents]_vars

\* a press on Save that commits with a custom duration typed; the event it
\* stores
SaveCustom == PressSave /\ orderView.customDur # <<>> /\ orderView'.popover = <<>>
SavedId == IF orderView.popover[1].mode = "add" THEN NextEventId
           ELSE orderView.popover[1].event.id
IsNumeric(text) == text # <<>> /\ \A i \in DOMAIN text : IsDigit(text[i])
\* n clamped to [5, 600] and rounded to the nearest multiple of 5
ClampedRounded(n) == RoundDiv(Max(5, Min(600, n)), SnapMinutes) * SnapMinutes

\* C20: a save with a custom duration typed stores the entry clamped to [5,
\* 600] and rounded to the nearest multiple of 5 when the entry is a number,
\* and the default of 30 minutes when it is not.
C20_CustomDurationClamped ==
  [][SaveCustom =>
       \A i \in DOMAIN schedEvents' :
         schedEvents'[i].id = SavedId =>
           schedEvents'[i].duration =
             IF IsNumeric(orderView.customDur)
             THEN ClampedRounded(DigitsValue(orderView.customDur, 0))
             ELSE 30]_vars

\* ============================================================ the habits
MaxHabits == 2
HabitIds == 1..MaxHabits
\* addHabit(n); id is the value genId() returns
addHabit(hs, id, n) == Append(hs, [id |-> id, name |-> n, done |-> FALSE])
\* resetHabits()
resetHabits(hs) == UncheckAll(hs)
\* x.history || []
HistoryOf(h) == IF "history" \in DOMAIN h THEN h.history ELSE <<>>

\* the history of a habit checked on each of the n days before day 0
PrefillHistory(n) == [i \in 1..n |-> [date |-> i - n - 1, done |-> TRUE]]

\* an installation used on day 0, its habit with no history or a full one
InitHabits ==
  /\ now = 0
  /\ tzShift \in 0..(TicksPerDay - 1)
  /\ \E n \in {0, HistoryCap} :
       LET r == MountApp([k \in Keys |-> Missing], {}, 0, tzShift)
           hs == [i \in DOMAIN r.m.habits |->
                    [r.m.habits[i] EXCEPT !.history = PrefillHistory(n)]]
       IN store = save(r.st, {}, "habits", hs)
  /\ failKeys = {}
  /\ faults = 0
  /\ mounted = FALSE
  /\ habits = Unloaded.habits
  /\ schedEvents = Unloaded.schedEvents
  /\ tasks = Unloaded.tasks
  /\ gratitude = Unloaded.gratitude
  /\ reflections = Unloaded.reflections
  /\ ViewInit

AddHabit ==
  /\ mounted
  /\ HabitIds \ SeqIds(habits) # {}
  /\ UserStep([Mem EXCEPT !.habits = addHabit(@, genId(HabitIds, SeqIds(habits)), "n")],
              {"habits"})
\* "reset all" of the habits card
ResetHabits ==
  /\ mounted
  /\ UserStep([Mem EXCEPT !.habits = resetHabits(@)], {"habits"})

NextHabits ==
  \/ Mount
  \/ Close
  \/ MinuteTick
  \/ HourTick
  \/ ManualReset
  \/ TogHabit
  \/ AddHabit
  \/ ResetHabits
  \/ AdvanceClock

\* the habits over the days, with every trigger of the rollover
SpecHabits == InitHabits /\ [][NextHabits]_vars

\* at most 7 entries, at most one per date
HistoryWindow(hs) ==
  \A i \in DOMAIN hs :
    LET h == HistoryOf(hs[i])
    IN /\ Len(h) <= 7
       /\ \A j, k \in DOMAIN h : j # k => h[j].date # h[k].date
\* new is old with the entry of today set to done: overwritten in its place,
\* or appended with the oldest entries beyond 7 dropped
TodaySet(old, new, today, done) ==
  IF \E j \in DOMAIN old : old[j].date = today
  THEN /\ Len(new) = Len(old)
       /\ \A j \in DOMAIN old :
            new[j] = IF old[j].date = today THEN [date |-> today, done |-> done] ELSE old[j]
  ELSE /\ Len(new) = Min(Len(old) + 1, 7)
       /\ new[Len(new)] = [date |-> today, done |-> done]
       /\ \A j \in 1..(Len(new) - 1) : new[j] = old[Len(old) - (Len(new) - 1) + j]

\* C21: the history of every habit, in the state and in the store, has at most
\* 7 entries and at most one entry per date; a toggle flips one habit, leaves
\* the others as they were, and sets the entry of today in the history of
\* the toggled habit to its new done value, in place if there is one,
\* appended with the oldest entries beyond 7 dropped if not.
C21_HistoryWindow ==
  /\ [](HistoryWindow(habits) /\ HistoryWindow(StoredHabits(store)))
  /\ [][TogHabit =>
          /\ Len(habits') = Len(habits)
          /\ \E i \in DOMAIN habits :
               /\ habits'[i].done = ~habits[i].done
               /\ SameBut(habits[i], habits'[i], {"done", "history"})
               /\ TodaySet(HistoryOf(habits[i]), HistoryOf(habits'[i]), UtcDate(now),
                           habits'[i].done)
               /\ \A j \in DOMAIN habits : j # i => habits'[j] = habits[j]
          /\ StoredHabits(store') = habits']_vars
\* a full history has taken the entry of a later day and lost its oldest one
C21_Witness ==
  /\ mounted
  /\ \E i \in DOMAIN habits :
       LET h == HistoryOf(habits[i])
       IN /\ Len(h) = 7
          /\ h[7].date = UtcDate(now)
          /\ h[7].done = habits[i].done
          /\ h[1].date = -6

\* the habits after a rollover: the same habits in the same order, none
\* checked, each with the history entries it had
RolledHabits(before, after) ==
  /\ Len(after) = Len(before)
  /\ \A i \in DOMAIN before :
       /\ after[i].done = FALSE
       /\ SameBut(before[i], after[i], {"done", "history"})
       /\ DOMAIN after[i] \subseteq DOMAIN before[i] \cup {"history"}
       /\ HistoryOf(after[i]) = HistoryOf(before[i])
\* a step that marks this week as processed
MarksThisWeek == ~WeekMarkerIs(store, ThisWeek) /\ WeekMarkerIs(store', ThisWeek)

C29_CheckedStaysChecked ==
  [][(Tick /\ DayMarker(store) = Today) =>
       /\ Len(habits') = Len(Pre.habits)
       /\ \A i \in DOMAIN Pre.habits : Pre.habits[i].done => habits'[i].done]_vars

\* C30: in a mounted session every history entry dated today carries the
\* done flag of its habit.
C30_DoneAgreesWithHistory ==
  mounted =>
    \A i \in DOMAIN habits :
      \A j \in DOMAIN HistoryOf(habits[i]) :
        HistoryOf(habits[i])[j].date = UtcDate(now) =>
          HistoryOf(habits[i])[j].done = habits[i].done

\* C24: choosing a type other than the current one in the editor leaves the
\* typed title empty and no task or habit picked.
C24_TypeChangeResetsForm ==
  [][(TypeChange /\ orderView'.popType # orderView.popType) =>
       /\ orderView'.popTitle = ""
       /\ orderView'.popItemRef = NoItemRef]_vars

\* ------------------------------------------- the two rollover code paths
\* the state after each of two ticks at t0 <= t1 of a session that starts
\* from the store st: under App (both checks at the mount and at the tick)
\* and under the useDailyReset hook
AppTicks(st, fk, t0, t1, tz) ==
  LET a0 == MountApp(st, fk, t0, tz)
      a1 == BothChecks(a0.m, a0.st, fk, t1, tz)
  IN <<a0.m, a1.m>>
HookTicks(st, fk, t0, t1, tz) ==
  LET h0 == HookPerformDailyReset(LoadState(st), st, fk, t0, tz)
      h1 == HookPerformDailyReset(h0.m, h0.st, fk, t1, tz)
  IN <<h0.m, h1.m>>

\* C25: from every persisted state, a session under the useDailyReset hook
\* and a session under the two checks of App, ticked at the same two
\* instants, have the same habits, calendar events, task lists, archive and
\* reflection fields after each tick.
C25_HookEquivalentToApp ==
  \A t0, t1 \in now..MaxNow :
    t0 <= t1 =>
      AppTicks(store, failKeys, t0, t1, tzShift) = HookTicks(store, failKeys, t0, t1, tzShift)

\* a time is not later than another, by hour and then by minute
NotLater(a, b) == a.hour < b.hour \/ (a.hour = b.hour /\ a.minute <= b.minute)

\* C26: under every window, the time a click resolves to is not earlier than
\* the time any row above the clicked one resolves to.
C26_PointerTimeMonotone ==
  (orderView.popover # <<>> /\ orderView.popover[1].mode = "add") =>
    \A y1 \in ClickRows(orderView.startH, orderView.len) :
      y1 <= orderView.popover[1].y =>
        NotLater(getTimeFromY(y1, orderView.startH, orderView.len), Resolved)

\* ------------------------------------------------------------ the undo
\* setUndoTask of toggleTask(id, list): the archive entry on a completion,
\* null when the task is set back to not done
undoOf(tk, id, list, at) ==
  LET t == tk[list][CHOOSE i \in DOMAIN tk[list] : tk[list][i].id = id]
  IN IF ~t.done
     THEN <<[done |-> TRUE, completedAt |-> <<at>>, fromList |-> list] @@ t>>
     ELSE NoUndo
\* handleUndo(), with u the task of the toast; a field that is undefined is
\* a field left out
handleUndo(tk, u) ==
  LET list == u.fromList
      restoredTask == [id |-> u.id, done |-> FALSE]
                        @@ (IF "time" \in DOMAIN u THEN [time |-> u.time] ELSE <<>>)
      other(ct) == ct.id # u.id
  IN [tk EXCEPT !.completed = SelectSeq(@, other),
                ![list] = Append(@, restoredTask)]

\* toggleTask(id, list) with its toast
ToggleTaskToast ==
  /\ mounted
  /\ \E list \in Lists : \E id \in SeqIds(tasks[list]) :
       LET m == [Mem EXCEPT !.tasks = toggleTask(@, id, list, now)]
       IN /\ SetMem(m)
          /\ store' = Persist(store, failKeys, m, {"tasks"})
          /\ undoTask' = undoOf(tasks, id, list, now)
  /\ UNCHANGED <<orderView, dataTransfer, now, tzShift, failKeys, faults, mounted>>
\* Undo pressed on the toast, while the list it adds to is short
MaxListLen == 2
Undo ==
  /\ mounted
  /\ undoTask # NoUndo
  /\ Len(tasks[undoTask[1].fromList]) < MaxListLen
  /\ LET m == [Mem EXCEPT !.tasks = handleUndo(@, undoTask[1])]
     IN /\ SetMem(m)
        /\ store' = Persist(store, failKeys, m, {"tasks"})
  /\ undoTask' = NoUndo
  /\ UNCHANGED <<orderView, dataTransfer, now, tzShift, failKeys, faults, mounted>>
\* the 5 seconds of the toast run out
UndoExpires ==
  /\ mounted
  /\ undoTask # NoUndo
  /\ undoTask' = NoUndo
  /\ UNCHANGED <<orderView, dataTransfer, now, tzShift, store, failKeys, faults, mounted,
                 habits, schedEvents, tasks, gratitude, reflections>>

NextUndo ==
  \/ Mount
  \/ Close
  \/ AddTask
  \/ ToggleTaskToast
  \/ Undo
  \/ UndoExpires
  \/ DelTask
  \/ AdvanceClock

\* the task lists with the undo toast
SpecUndo == Init /\ [][NextUndo]_vars

\* how many entries of the sequence s carry the id
Occurrences(s, id) == Cardinality({i \in DOMAIN s : s[i].id = id})

\* C28: after Undo the task of the toast is in the list it was completed in
\* exactly once and not done, the archive has no entry for it, and no id
\* occurs twice in a working list.
C28_UndoInvertsCompletion ==
  [][Undo =>
       LET u == undoTask[1]
       IN /\ Occurrences(tasks'[u.fromList], u.id) = 1
          /\ \A i \in DOMAIN tasks'[u.fromList] :
               tasks'[u.fromList][i].id = u.id => ~tasks'[u.fromList][i].done
          /\ Occurrences(tasks'.completed, u.id) = 0
          /\ \A l \in Lists : \A i \in DOMAIN tasks'[l] :
               Occurrences(tasks'[l], tasks'[l][i].id) = 1]_vars

\* the editor stands as it was opened on a stored event: no field has been
\* changed since
OpenedUntouched ==
  /\ EditorOpen
  /\ orderView.popover[1].mode = "edit"
  /\ \E i \in DOMAIN schedEvents :
       /\ schedEvents[i] = orderView.popover[1].event
       /\ orderView = openPopoverEdit(orderView, schedEvents[i], orderView.popover[1].y)

\* C27: Save pressed in an editor opened on a stored event, with no field
\* changed, leaves the calendar events as they were.
C27_OpenSaveChangesNothing ==
  [][(PressSave /\ OpenedUntouched) => schedEvents' = schedEvents]_vars

\* ------------------------------------------------- the schedule as a whole
\* handleScheduleReset(), once the user has confirmed
handleScheduleReset(evs) == <<>>
\* the hour select of the editor: hour12 of 12, 1, ..., 11 under the AM/PM
\* the hour has
pickHour(ov, hour12) ==
  LET isPM == ov.popHour >= 12
  IN [ov EXCEPT !.popHour = IF isPM THEN (IF hour12 = 12 THEN 12 ELSE hour12 + 12)
                            ELSE (IF hour12 = 12 THEN 0 ELSE hour12)]
\* the AM and PM buttons
pickAmPm(ov, pm) ==
  [ov EXCEPT !.popHour = IF pm THEN (IF @ < 12 THEN @ + 12 ELSE @)
                         ELSE (IF @ >= 12 THEN @ - 12 ELSE @)]

PickedHours == {11}
PickedMinutes == {55}
ScheduleEntries == {<<"7", "0", "0">>}

ScheduleReset ==
  /\ Idle
  /\ ViewStep(orderView, NoDrag, [Mem EXCEPT !.schedEvents = handleScheduleReset(@)],
              {"schedEvents"})
\* the start time pickers of the editor, one after the other: the hour
\* select, the PM button, the minute select
PickStart ==
  /\ EditorOpen
  /\ \E h \in PickedHours, m \in PickedMinutes :
       EditorStep([pickAmPm(pickHour(orderView, h), TRUE) EXCEPT !.popMinute = m])
\* the custom duration input, with an entry beyond the cap
TypeLongDur ==
  /\ EditorOpen
  /\ \E text \in ScheduleEntries : EditorStep([orderView EXCEPT !.customDur = text])
\* the pointer moves over the last row of the grid
DragOverLastRow ==
  /\ Dragging
  /\ ViewStep(handleScheduleDragOver(orderView, dataTransfer[1],
                                     LastSlotRow(orderView.len) * Px, TRUE),
              dataTransfer, Mem, {})

\* the application open on a schedule of one event, saved from the editor
\* with "Keep daily" checked, and one task
InitSchedule ==
  /\ now = 0
  /\ tzShift = 0
  /\ failKeys = {}
  /\ faults = 0
  /\ mounted = TRUE
  /\ ViewInit
  /\ LET m0 == MountApp([k \in Keys |-> Missing], {}, 0, 0)
         tk == addTask(m0.m.tasks, 1, "today")
         ed == [handleGridClick(OrderViewInit, BlockTop(9, 0, 9))
                  EXCEPT !.popTitle = "t", !.popPersistent = TRUE]
         m == [m0.m EXCEPT !.tasks = tk,
                           !.schedEvents = saveEvent(ed, <<>>, tk, m0.m.habits, 1).evs]
     IN /\ habits = m.habits
        /\ schedEvents = m.schedEvents
        /\ tasks = m.tasks
        /\ gratitude = m.gratitude
        /\ reflections = m.reflections
        /\ store = Persist(m0.st, {}, m, {"tasks", "schedEvents"})

NextSchedule ==
  \/ SlotClick
  \/ BlockClick
  \/ PickStart
  \/ TypeLongDur
  \/ PressSave
  \/ PressDelete
  \/ CloseModal
  \/ TaskDragStart
  \/ HabitDragStart
  \/ BlockDragStart
  \/ DragOverLastRow
  \/ Drop
  \/ DragCancel
  \/ ScheduleReset
  \/ MinuteTick
  \/ AdvanceClock

\* every way the calendar events change: the editor, the drags, the reset
\* of the schedule and the rollover
SpecSchedule == InitSchedule /\ [][NextSchedule]_vars

WellFormedEvents(evs) ==
  /\ \A i, j \in DOMAIN evs : i # j => evs[i].id # evs[j].id
  /\ \A i \in DOMAIN evs :
       /\ evs[i].duration \in 1..600
       /\ evs[i].hour \in 0..23
       /\ evs[i].minute \in 0..59

====
